---------------------------- MODULE Spec2Model ----------------------------
(***************************************************************************)
(* Model of src/udp_json_to_sbs_kalman.py: the UDP ingest loop, the 10 Hz  *)
(* prediction thread, the TCP accept loop and the broadcast fan-out, with  *)
(* the per-aircraft Kalman filter they share.                              *)
(*                                                                         *)
(* Numbers.  The program computes in IEEE doubles; the model computes in   *)
(* integers with fixed units:                                              *)
(*   time            seconds                                               *)
(*   x, y, alt       metres            vx, vy, v_alt   metres/second       *)
(*   lat, lon        1e-5 degree       (DegScale units per degree)         *)
(*   covariance P    tenths            (PScale units per unit)             *)
(*   gain K          thousandths       (KScale units per unit)             *)
(* A quotient is rounded down to the unit; NaN is a value of its own that  *)
(* every arithmetic operation propagates, as IEEE arithmetic does.         *)
(***************************************************************************)
EXTENDS Integers, Sequences, FiniteSets, TLC

(***************************************************************************)
(* Bounds of the model.                                                    *)
(***************************************************************************)
MaxTime == 1          \* the wall clock runs over 0..MaxTime
MaxDatagrams == 2     \* datagrams received by the UDP listener
MaxSockets == 2       \* connections accepted by the TCP server
MaxInputs == 3        \* datagrams received and connections accepted, together
MaxTicks == 2         \* cycles of the prediction thread
MaxPredicts == 2      \* applications of predict to a filter on its own
MaxEncodes == 3       \* lines generated for a track on its own

(***************************************************************************)
(* Units of the fixed-point representation.                                *)
(***************************************************************************)
PScale == 2 * 5
KScale == 10 * 100
DegScale == 100 * 1000

(***************************************************************************)
(* IEEE NaN.  json.loads accepts the literal NaN, so a report can carry    *)
(* it; NaN op x = NaN for every x, 0 * NaN included.                       *)
(***************************************************************************)
NaN == 0 - 2147483647
IsNaN(a) == a = NaN
Add(a, b) == IF IsNaN(a) \/ IsNaN(b) THEN NaN ELSE a + b
Sub(a, b) == IF IsNaN(a) \/ IsNaN(b) THEN NaN ELSE a - b
Mul(a, b) == IF IsNaN(a) \/ IsNaN(b) THEN NaN ELSE a * b
Div(a, b) == IF IsNaN(a) \/ IsNaN(b) THEN NaN ELSE a \div b

(***************************************************************************)
(* numpy: the fixed-size matrices of the filter.  A matrix is a tuple of   *)
(* rows.  The covariance and the gain hold numbers; the state and the      *)
(* measurement are column vectors, held as tuples, and may hold NaN.       *)
(***************************************************************************)
\* A local variable: Local([x \in {v} |-> e]) is e with x standing for the
\* value of v, computed once, as an assignment computes its right-hand side
\* once.
Only(S) == CHOOSE r \in S : TRUE
Local(f) == Only({ g[Only(DOMAIN g)] : g \in {f} })

\* the tuple of the n values (3 or 6) of f, and the matrix of its n x m values
Tup(f, n) ==
    IF n = 3 THEN << f[1], f[2], f[3] >>
    ELSE << f[1], f[2], f[3], f[4], f[5], f[6] >>
Mat(f, n, m) == Tup([i \in 1..n |-> Tup([j \in 1..m |-> f[i, j]], m)], n)

Eye(n, c) == Mat([i \in 1..n, j \in 1..n |-> IF i = j THEN c ELSE 0], n, n)
MatAdd(A, B) ==
    Mat([i \in 1..Len(A), j \in 1..Len(A[1]) |-> A[i][j] + B[i][j]], Len(A), Len(A[1]))
HasNaN(v) == \E i \in 1..Len(v) : IsNaN(v[i])

\* F = I + dt E, where E has a one at (i, i + 3) for i = 1..3 and zeros
\* elsewhere.  The products with F are written without the terms that a
\* zero of F multiplies.
\* F @ v: every entry of the product is a sum over the whole of v, zero
\* coefficients included, so one NaN in v makes every entry NaN
FTimesVec(dt, v) ==
    IF HasNaN(v) THEN Tup([i \in 1..6 |-> NaN], 6)
    ELSE Tup([i \in 1..6 |-> IF i <= 3 THEN v[i] + dt * v[i + 3] ELSE v[i]], 6)

\* F @ P @ F.T
FPFt(dt, P) ==
    Mat([i \in 1..6, j \in 1..6 |->
          P[i][j]
          + (IF i <= 3 THEN dt * P[i + 3][j] ELSE 0)
          + (IF j <= 3 THEN dt * P[i][j + 3] ELSE 0)
          + (IF i <= 3 /\ j <= 3 THEN dt * dt * P[i + 3][j + 3] ELSE 0)],
        6, 6)

\* H = [I3 | 0]: H @ v and H @ P @ H.T select entries
HTimesVec(v) ==
    IF HasNaN(v) THEN Tup([i \in 1..3 |-> NaN], 3) ELSE Tup([i \in 1..3 |-> v[i]], 3)
HPHt(P) == Mat([i \in 1..3, j \in 1..3 |-> P[i][j]], 3, 3)

\* K @ y for a gain K in thousandths: K y / KScale
GainTimesVec(K, y) ==
    IF HasNaN(y) THEN Tup([i \in 1..6 |-> NaN], 6)
    ELSE Tup([i \in 1..6 |->
           (K[i][1] * y[1] + K[i][2] * y[2] + K[i][3] * y[3]) \div KScale], 6)

\* (I - K @ H) @ P for a gain K in thousandths
IKHP(K, P) ==
    Mat([i \in 1..6, j \in 1..6 |->
          (KScale * P[i][j]
           - (K[i][1] * P[1][j] + K[i][2] * P[2][j] + K[i][3] * P[3][j])) \div KScale],
        6, 6)

VecAdd(u, v) == Tup([i \in 1..Len(u) |-> Add(u[i], v[i])], Len(u))
VecSub(u, v) == Tup([i \in 1..Len(u) |-> Sub(u[i], v[i])], Len(u))

(***************************************************************************)
(* Coordinate conversion (lines 20-37).  math.cos is approximated by       *)
(* Bhaskara's rational formula on hundredths of a degree, in thousandths;  *)
(* the approximation is within 2/1000.                                     *)
(***************************************************************************)
MPerDegLat == 110574
MPerDegLonEquator == 111320

\* cos of an angle of c hundredths of a degree, -9000 <= c <= 9000
Bhaskara(c) == (324000000 - 4 * c * c) \div ((324000000 + c * c) \div KScale)

\* math.cos / math.sin of math.radians(c / 100), in thousandths
CosCenti(c) ==
    LET m == ((c + 18000) % 36000) - 18000        \* in [-18000, 18000)
    IN  IF m < -9000 THEN 0 - Bhaskara(m + 18000)
        ELSE IF m > 9000 THEN 0 - Bhaskara(m - 18000)
        ELSE Bhaskara(m)
SinCenti(c) == CosCenti(c - 9000)

CosMilli(lat) == IF IsNaN(lat) THEN NaN ELSE CosCenti(lat \div (DegScale \div 100))

MPerDegLon(ref_lat) == Div(Mul(MPerDegLonEquator, CosMilli(ref_lat)), KScale)

\* returns <<x, y>> in metres
latlon_to_xy(lat, lon, ref_lat, ref_lon) ==
    << Div(Mul(Sub(lon, ref_lon), MPerDegLon(ref_lat)), DegScale),
       Div(Mul(Sub(lat, ref_lat), MPerDegLat), DegScale) >>

\* returns <<lat, lon>> in 1e-5 degree
xy_to_latlon(x, y, ref_lat, ref_lon) ==
    << Add(Div(Mul(y, DegScale), MPerDegLat), ref_lat),
       Add(Div(Mul(x, DegScale), MPerDegLon(ref_lat)), ref_lon) >>

(***************************************************************************)
(* The same two functions at a finer resolution, for their round trip:     *)
(* angles in 1e-7 degree, lengths in millimetres, finite arguments.        *)
(* MulDiv(a, b, c) is the floor of a * b / c, computed without the large   *)
(* product.                                                                *)
(***************************************************************************)
FineDeg == 100 * DegScale                 \* units of latitude per degree
MilliPerMetre == 10 * 100
MulDiv(a, b, c) == (a \div c) * b + ((a % c) * b) \div c

\* returns <<x, y>> in millimetres
latlon_to_xy_fine(lat, lon, ref_lat, ref_lon) ==
    << MulDiv(lon - ref_lon, MPerDegLon(ref_lat \div (FineDeg \div DegScale)),
              FineDeg \div MilliPerMetre),
       MulDiv(lat - ref_lat, MPerDegLat, FineDeg \div MilliPerMetre) >>

\* A defective inverse that leaves the cosine of the reference latitude out.
xy_to_latlon_no_cos(x, y, ref_lat, ref_lon) ==
    << MulDiv(y, FineDeg \div MilliPerMetre, MPerDegLat) + ref_lat,
       MulDiv(x, FineDeg \div MilliPerMetre, MPerDegLonEquator) + ref_lon >>

\* returns <<lat, lon>> in 1e-7 degree
xy_to_latlon_fine(x, y, ref_lat, ref_lon) ==
    << MulDiv(y, FineDeg \div MilliPerMetre, MPerDegLat) + ref_lat,
       MulDiv(x, FineDeg \div MilliPerMetre,
              MPerDegLon(ref_lat \div (FineDeg \div DegScale))) + ref_lon >>

(***************************************************************************)
(* KalmanFilterLocal (lines 42-100).  A filter is a record; Q and R are    *)
(* set once by the constructor and never assigned again, so they are       *)
(* operators here.                                                         *)
(***************************************************************************)
P0 == Eye(6, 100 * PScale)      \* self.P = np.eye(6) * 100.0
Q6 == Eye(6, 1)                 \* self.Q = np.eye(6) * 0.1
R3 == Eye(3, 10 * PScale)       \* self.R = np.eye(3) * 10.0

\* __init__: the reference is the first measurement; last_time is read
\* from the clock by the constructor itself.
KalmanFilterLocal(lat, lon, alt_m, vx, vy, v_alt, icao, callsign, squawk, clock) ==
    LET xy == latlon_to_xy(lat, lon, lat, lon)
    IN  [ ref_lat   |-> lat,
          ref_lon   |-> lon,
          icao      |-> icao,
          callsign  |-> callsign,
          squawk    |-> squawk,
          state     |-> << xy[1], xy[2], alt_m, vx, vy, v_alt >>,
          P         |-> P0,
          last_time |-> clock ]

\* A defective predict that leaves the process noise Q out.
predictNoQ(kf, dt) ==
    [kf EXCEPT
       !.state     = FTimesVec(dt, kf.state),
       !.P         = FPFt(dt, kf.P),
       !.last_time = kf.last_time + dt]

\* A defective predict that leaves last_time where it was.
predictNoClock(kf, dt) ==
    [kf EXCEPT
       !.state     = FTimesVec(dt, kf.state),
       !.P         = MatAdd(FPFt(dt, kf.P), Q6)]

\* predict(dt): no guard on dt here; the callers guard.
predict(kf, dt) ==
    [kf EXCEPT
       !.state     = FTimesVec(dt, kf.state),
       !.P         = MatAdd(FPFt(dt, kf.P), Q6),
       !.last_time = kf.last_time + dt]

\* np.linalg.inv raises LinAlgError on a singular matrix.  S is diagonal in
\* every state the model reaches (SIsDiagonal below), and a diagonal matrix
\* is singular exactly when a diagonal entry is zero.
IsDiagonal(S) == \A i, j \in 1..Len(S) : i # j => S[i][j] = 0
IsSingular(S) == \E i \in 1..Len(S) : S[i][i] = 0

\* K = P @ H.T @ inv(S) for diagonal S, in thousandths (P @ H.T is the
\* first three columns of P)
Gain(P, S) == Mat([i \in 1..6, j \in 1..3 |-> (P[i][j] * KScale) \div S[j][j]], 6, 3)

\* S = H @ P @ H.T + R
InnovationCov(kf) == MatAdd(HPHt(kf.P), R3)

\* update(lat, lon, alt_m, current_time): returns the filter as the call
\* leaves it, whether the call raised, and the dt values it passed to
\* predict.  predict runs before the inversion, so a raise leaves the
\* predicted filter behind.
update(kf, lat, lon, alt_m, current_time) ==
    LET zxy == latlon_to_xy(lat, lon, kf.ref_lat, kf.ref_lon)
        z   == << zxy[1], zxy[2], alt_m >>
        dt  == current_time - kf.last_time
        pdt == IF dt > 0 THEN <<dt>> ELSE <<>>
    IN  Local([kp \in {IF dt > 0 THEN predict(kf, dt) ELSE kf} |->
        Local([y \in {VecSub(z, HTimesVec(kp.state))} |->
        Local([S \in {InnovationCov(kp)} |->
          IF IsSingular(S)
          THEN [kf |-> kp, raised |-> TRUE, pdt |-> pdt]
          ELSE Local([K \in {Gain(kp.P, S)} |->
                 [kf |-> [kp EXCEPT
                            !.state     = VecAdd(kp.state, GainTimesVec(K, y)),
                            !.P         = IKHP(K, kp.P),
                            !.last_time = current_time],
                  raised |-> FALSE, pdt |-> pdt]])])])])

(***************************************************************************)
(* Text conversions of the encoder and of the listener.                    *)
(***************************************************************************)
\* str.upper() on the identities the model's reports carry
Upper(s) ==
    CASE s = "abc123" -> "ABC123"
      [] s = "b2"     -> "B2"
      [] OTHER        -> s

\* str.strip() on the callsigns the model's reports carry
Strip(s) ==
    CASE s = "KLM1 "  -> "KLM1"
      [] s = " KLM2"  -> "KLM2"
      [] s = "  "     -> ""
      [] OTHER        -> s

\* str(n) for an integer
Str(n) == ToString(n)

\* zero-padded decimal of a natural number
RECURSIVE Pad(_, _)
Pad(n, width) ==
    IF width <= 1 THEN Str(n)
    ELSE Pad(n \div 10, width - 1) \o Str(n % 10)

\* f"{v:.5f}" of a value held in 1e-5 units
Fmt5(v) ==
    IF IsNaN(v) THEN "nan"
    ELSE LET a == IF v < 0 THEN 0 - v ELSE v
         IN  (IF v < 0 THEN "-" ELSE "") \o Str(a \div DegScale) \o "."
             \o Pad(a % DegScale, 5)

\* time.strftime("%Y/%m/%d") and ("%H:%M:%S") of time.localtime(t), for the
\* first day of the epoch in UTC
DateStr(t) == IF t \div 86400 = 0 THEN "1970/01/01" ELSE "1970/01/01+" \o Str(t \div 86400)
TimeStr(t) ==
    Pad((t \div 3600) % 24, 2) \o ":" \o Pad((t \div 60) % 60, 2) \o ":" \o Pad(t % 60, 2)

(***************************************************************************)
(* Arithmetic of the encoder: round(), math.hypot, math.atan2.             *)
(***************************************************************************)
\* round(a / b) for b > 0, halves rounded up
RoundDiv(a, b) == (2 * a + b) \div (2 * b)

\* floor of the square root
RECURSIVE SqrtIter(_, _)
SqrtIter(n, x) ==
    Local([y \in {(x + n \div x) \div 2} |-> IF y >= x THEN x ELSE SqrtIter(n, y)])
ISqrt(n) == IF n <= 0 THEN 0 ELSE Local([m \in {n} |-> SqrtIter(m, m)])

Abs(a) == IF a < 0 THEN 0 - a ELSE a

\* math.hypot(vx, vy), in tenths of m/s
HypotDeci(vx, vy) == ISqrt((vx * vx + vy * vy) * 100)

\* atan(a / b) in hundredths of a degree for 0 <= a <= b, b > 0:
\* 45 z + 15.64 z (1 - z) degrees with z = a / b (within 0.25 degree)
AtanCenti(a, b) == (4500 * a) \div b + (1564 * a * (b - a)) \div (b * b)

\* math.degrees(math.atan2(vx, vy)) in hundredths of a degree, in
\* (-18000, 18000]: the angle of (vx, vy) clockwise from north
Atan2Centi(vx, vy) ==
    LET ax == Abs(vx)
        ay == Abs(vy)
        first == IF ax = 0 /\ ay = 0 THEN 0          \* angle in [0, 9000]
                 ELSE IF ax <= ay THEN AtanCenti(ax, ay)
                 ELSE 9000 - AtanCenti(ay, ax)
        half  == IF vy >= 0 THEN first ELSE 18000 - first  \* in [0, 18000]
    IN  IF vx >= 0 THEN half ELSE 0 - half

(***************************************************************************)
(* generate_sbs_from_filter (lines 105-163).  Returns the filter as the    *)
(* call leaves it, whether the call raised, the 22 fields of the line      *)
(* (joined by "," in the program) and the dt values passed to predict.     *)
(* int(round(v)) raises ValueError on a NaN; nothing in the function       *)
(* catches it.                                                             *)
(***************************************************************************)
FeetOf(alt)        == alt * 3 + RoundDiv(alt * 28084, 100000)       \* alt * 3.28084
\* A defective conversion with the factor cut to 1.94.
KnotsOfShortFactor(speedDeci) == RoundDiv(speedDeci * 194, 1000)
KnotsOf(speedDeci) == RoundDiv(speedDeci * 194384, 1000000)         \* speed * 1.94384
FtMinOf(v_alt)     == v_alt * 196 + RoundDiv(v_alt * 850394, 1000000) \* v_alt * 196.850394

TrackDeg(vx, vy) ==
    LET t  == Atan2Centi(vx, vy)
        t2 == IF t < 0 THEN t + 36000 ELSE t
    IN  RoundDiv(t2, 100)

SbsFields(kf, lat, lon, current_time) ==
    LET alt   == kf.state[3]
        vx    == kf.state[4]
        vy    == kf.state[5]
        v_alt == kf.state[6]
    IN  << "MSG", "3", "", "",
           Upper(kf.icao),
           "",
           DateStr(current_time), TimeStr(current_time),
           DateStr(current_time), TimeStr(current_time),
           Strip(kf.callsign),
           Str(FeetOf(alt)),
           Str(KnotsOf(HypotDeci(vx, vy))),
           Str(TrackDeg(vx, vy)),
           Fmt5(lat),
           Fmt5(lon),
           Str(FtMinOf(v_alt)),
           kf.squawk,
           "0", "0", "0", "0" >>

\* A defective encoder that predicts whenever dt >= 0.
generate_sbs_unguarded(kf, current_time) ==
    LET dt  == current_time - kf.last_time
        pdt == IF dt >= 0 THEN <<dt>> ELSE <<>>
    IN  Local([kp \in {IF dt >= 0 THEN predict(kf, dt) ELSE kf} |->
        Local([ll \in {xy_to_latlon(kp.state[1], kp.state[2], kp.ref_lat, kp.ref_lon)} |->
          IF \E i \in 3..6 : IsNaN(kp.state[i])
          THEN [kf |-> kp, raised |-> TRUE, line |-> <<>>, pdt |-> pdt]
          ELSE [kf |-> kp, raised |-> FALSE,
                line |-> SbsFields(kp, ll[1], ll[2], current_time), pdt |-> pdt]])])

generate_sbs_from_filter(kf, current_time) ==
    LET dt  == current_time - kf.last_time
        pdt == IF dt > 0 THEN <<dt>> ELSE <<>>
    IN  Local([kp \in {IF dt > 0 THEN predict(kf, dt) ELSE kf} |->
        Local([ll \in {xy_to_latlon(kp.state[1], kp.state[2], kp.ref_lat, kp.ref_lon)} |->
          IF \E i \in 3..6 : IsNaN(kp.state[i])
          THEN [kf |-> kp, raised |-> TRUE, line |-> <<>>, pdt |-> pdt]
          ELSE [kf |-> kp, raised |-> FALSE,
                line |-> SbsFields(kp, ll[1], ll[2], current_time), pdt |-> pdt]])])

(***************************************************************************)
(* Inbound reports.  A JSON value of a report field is a number, the       *)
(* literal NaN, a string that is not a number, or absent.                  *)
(***************************************************************************)
Num(n)  == [tag |-> "num", v |-> n]
NaNVal  == [tag |-> "nan", v |-> 0]
BadStr  == [tag |-> "str", v |-> 0]
Absent  == [tag |-> "absent", v |-> 0]

\* ac.get(name, default) for a numeric default
GetOr(val, default) == IF val.tag = "absent" THEN Num(default) ELSE val
\* float(v) raises ValueError on a string that is not a number
FloatRaises(val) == val.tag = "str"
Float(val) == IF val.tag = "nan" THEN NaN ELSE val.v

Report(icao, lat, lon, alt, vel, hdg, ver, callsign, squawk) ==
    [ icaoAddress |-> icao, latDD |-> lat, lonDD |-> lon, altitudeMM |-> alt,
      horVelocityCMS |-> vel, headingDE2 |-> hdg, verVelocityCMS |-> ver,
      callsign |-> callsign, squawk |-> squawk ]

RepA1     == Report("abc123", Num(5200000), Num(400000), Num(10000000),
                    Num(20000), Num(9000), Num(0), "KLM1 ", "7000")
RepA2     == Report("ABC123", Num(5200100), Num(400200), Num(10100000),
                    Absent, Absent, Absent, " KLM2", "7700")
RepB      == Report("b2", Num(5190000), Num(410000), Num(3000000),
                    Num(10000), Num(0), Num(-500), "", "")
RepBNoAlt == Report("B2", Num(5190000), Num(410000), Absent,
                    Num(10000), Num(0), Num(0), "", "")
RepBBad   == Report("B2", Num(5190000), Num(410000), BadStr,
                    Num(10000), Num(0), Num(0), "", "")
RepBNaN   == Report("B2", Num(5190000), Num(410000), NaNVal,
                    Num(10000), Num(0), Num(0), "", "")
RepNoId   == Report("", Num(5190000), Num(410000), Num(3000000),
                    Absent, Absent, Absent, "", "")

\* A datagram: bytes that do not decode to JSON, a JSON object without
\* "aircraft", or a JSON object with an "aircraft" array.
Garbage      == [kind |-> "garbage",    aircraft |-> <<>>]
NoAircraft   == [kind |-> "noaircraft", aircraft |-> <<>>]
Aircraft(es) == [kind |-> "aircraft",   aircraft |-> es]

\* The datagrams the model's sender can send; the listener's local
\* json_data holds the index of the one received.
Datagrams ==
    << Garbage,
       NoAircraft,
       Aircraft(<<RepA1>>),
       Aircraft(<<RepBNoAlt, RepA2, RepNoId, RepB>>),
       Aircraft(<<RepA1, RepBNaN, RepBNoAlt, RepBBad, RepA2>>) >>

(***************************************************************************)
(* The dict `filters`, as list(filters.items()): a sequence of             *)
(* <<key, filter>> in insertion order.                                     *)
(***************************************************************************)
Keys(d)   == { d[i][1] : i \in DOMAIN d }
Has(d, k) == \E i \in DOMAIN d : d[i][1] = k
Get(d, k) == d[CHOOSE i \in DOMAIN d : d[i][1] = k][2]
\* A defective store that evicts the other tracks when a new key comes in.
PutEvict(d, k, v) ==
    IF Has(d, k)
    THEN [i \in DOMAIN d |-> IF d[i][1] = k THEN <<k, v>> ELSE d[i]]
    ELSE << <<k, v>> >>

Put(d, k, v) ==
    IF Has(d, k)
    THEN [i \in DOMAIN d |-> IF d[i][1] = k THEN <<k, v>> ELSE d[i]]
    ELSE Append(d, <<k, v>>)

\* A defective remove that drops the first element whatever x is.
RemoveHead(l, x) == IF l = <<>> THEN <<>> ELSE Tail(l)

\* list.remove(x): removes the first element equal to x
RECURSIVE Remove(_, _)
Remove(l, x) ==
    IF l = <<>> THEN <<>>
    ELSE IF Head(l) = x THEN Tail(l)
    ELSE <<Head(l)>> \o Remove(Tail(l), x)

(***************************************************************************)
(* State.                                                                  *)
(***************************************************************************)
VARIABLES
    now,           \* time.time()
    filters,       \* the dict of filters
    filters_lock,  \* holder of filters_lock: "none", "udp" or "pred"
    clients,       \* the list of client sockets
    clients_lock,  \* holder of clients_lock: "none" or "pred" (tcp_server appends in one step)
    sock,          \* per socket: "free", "open", "reset" (the peer is gone),
                   \* "stalled" (the peer does not read, the send buffer is
                   \* full) or "closed"
    delivered,     \* per socket: the batches sendall wrote, by tick number
    udp,           \* udp_listener: its position and locals
    pred,          \* prediction_thread with broadcast: its position and locals
    tcp            \* tcp_server: its position and locals

vars == << now, filters, filters_lock, clients, clients_lock, sock, delivered,
           udp, pred, tcp >>

Sockets == 1..MaxSockets

\* History kept for the properties.  `last` is what a thread's last step
\* did: the operation, the key it was about, the filter before the step
\* (none: <<>>) and the dt values passed to predict.  udp.upserted lists the
\* entries of the current datagram that reached the upsert, udp.bad tells
\* that some input was rejected, pred.failed holds the tracks whose line
\* could not be generated in this tick, delivered[s] the ticks whose batch
\* was written to socket s.
Did(op, key, pre, pdt) == [op |-> op, key |-> key, pre |-> pre, pdt |-> pdt]
Nothing == Did("none", "", <<>>, <<>>)

\* everything but the registry
InitThreads ==
    /\ now = 0
    /\ filters_lock = "none"
    /\ clients = <<>>
    /\ clients_lock = "none"
    /\ sock = [s \in Sockets |-> "free"]
    /\ delivered = [s \in Sockets |-> <<>>]
    /\ udp = [pc |-> "recv", json |-> 1, current_time |-> 0, i |-> 1,
              n |-> 0, upserted |-> <<>>, bad |-> FALSE, last |-> Nothing]
    /\ pred = [pc |-> "tick", current_time |-> 0, items |-> <<>>, i |-> 1,
               messages |-> <<>>, failed |-> {}, cl |-> <<>>, j |-> 1, n |-> 0,
               last |-> Nothing]
    /\ tcp = [pc |-> "accept", sock |-> 0, n |-> 0]

Init ==
    /\ filters = <<>>
    /\ InitThreads

(***************************************************************************)
(* udp_listener (lines 177-227).                                           *)
(***************************************************************************)
\* The body of the for loop for one entry `ac` (lines 191-224) on the dict
\* d: the dict it leaves, what it did, and the dt values passed to predict.
\* `clock` is what time.time() returns inside the constructor.
ProcessEntry(d, ac, current_time, clock) ==
    LET icao == Upper(ac.icaoAddress)
        vel  == GetOr(ac.horVelocityCMS, 0)
        hdg  == GetOr(ac.headingDE2, 0)
        ver  == GetOr(ac.verVelocityCMS, 0)
    IN  IF icao = "" THEN
            [filters |-> d, did |-> Did("skip", icao, <<>>, <<>>)]
        ELSE IF \/ ac.latDD.tag = "absent" \/ ac.lonDD.tag = "absent"
                \/ ac.altitudeMM.tag = "absent" THEN
            [filters |-> d, did |-> Did("skip", icao, <<>>, <<>>)]
        ELSE IF \/ FloatRaises(ac.altitudeMM) \/ FloatRaises(vel)
                \/ FloatRaises(hdg) \/ FloatRaises(ver) THEN
            [filters |-> d, did |-> Did("raise", icao, <<>>, <<>>)]
        ELSE
            LET lat       == Float(ac.latDD)
                lon       == Float(ac.lonDD)
                alt_m     == Div(Float(ac.altitudeMM), 1000)
                speed_mps == Div(Float(vel), 100)
                h         == Float(hdg)
                vx == IF IsNaN(h) THEN NaN ELSE Div(Mul(speed_mps, SinCenti(h)), KScale)
                vy == IF IsNaN(h) THEN NaN ELSE Div(Mul(speed_mps, CosCenti(h)), KScale)
                v_alt     == Div(Float(ver), 100)
                callsign  == Strip(ac.callsign)
                squawk    == ac.squawk
            IN  IF Has(d, icao) THEN
                    Local([kf0 \in {Get(d, icao)} |->
                    Local([kf1 \in {[kf0 EXCEPT !.callsign = callsign,
                                                 !.squawk = squawk]} |->
                    Local([r \in {update(kf1, lat, lon, alt_m, current_time)} |->
                      [filters |-> Put(d, icao, r.kf),
                       did |-> Did(IF r.raised THEN "update_raise" ELSE "update",
                                   icao, <<kf0>>, r.pdt)]])])])
                ELSE
                    [filters |-> Put(d, icao,
                                     KalmanFilterLocal(lat, lon, alt_m, vx, vy, v_alt,
                                                       icao, callsign, squawk, clock)),
                     did |-> Did("create", icao, <<>>, <<>>)]

Entries(d) == Datagrams[d].aircraft

\* recvfrom, decode, json.loads, time.time(), the "aircraft" test: a
\* datagram that does not decode raises into the handler of line 225, one
\* without "aircraft" takes the continue of line 188.
UdpRecv(d) ==
    /\ udp.pc = "recv"
    /\ udp.n < MaxDatagrams
    /\ udp.n + tcp.n < MaxInputs
    /\ udp' = [udp EXCEPT
                 !.json = d,
                 !.n = @ + 1,
                 !.i = 1,
                 !.upserted = <<>>,
                 !.current_time = IF Datagrams[d].kind = "garbage" THEN @ ELSE now,
                 !.pc = IF Datagrams[d].kind = "aircraft" THEN "acquire" ELSE "recv",
                 !.bad = @ \/ Datagrams[d].kind # "aircraft",
                 !.last = Did(IF Datagrams[d].kind = "garbage" THEN "recv_raise"
                              ELSE IF Datagrams[d].kind = "noaircraft" THEN "recv_ignore"
                              ELSE "recv", "", <<>>, <<>>)]
    /\ UNCHANGED << now, filters, filters_lock, clients, clients_lock, sock,
                    delivered, pred, tcp >>

\* with filters_lock: (line 189)
UdpAcquire ==
    /\ udp.pc = "acquire"
    /\ filters_lock = "none"
    /\ filters_lock' = "udp"
    /\ udp' = [udp EXCEPT !.pc = "loop", !.i = 1,
                          !.last = Did("acquire", "", <<>>, <<>>)]
    /\ UNCHANGED << now, filters, clients, clients_lock, sock, delivered, pred, tcp >>

\* A defective listener without the handler of line 225: the exception
\* leaves the with block, which releases the lock, and ends the thread.
UdpEntryUncaught ==
    /\ udp.pc = "loop"
    /\ udp.i <= Len(Entries(udp.json))
    /\ \E r \in {ProcessEntry(filters, Entries(udp.json)[udp.i], udp.current_time, now)} :
       LET raised == r.did.op \in {"raise", "update_raise"}
       IN  /\ filters' = r.filters
           /\ filters_lock' = IF raised THEN "none" ELSE filters_lock
           /\ udp' = [udp EXCEPT
                        !.pc = IF raised THEN "dead" ELSE "loop",
                        !.i = @ + 1,
                        !.upserted = IF r.did.op \in {"create", "update"}
                                     THEN Append(@, udp.i) ELSE @,
                        !.bad = @ \/ raised,
                        !.last = r.did]
    /\ UNCHANGED << now, clients, clients_lock, sock, delivered, pred, tcp >>

\* one iteration of the for loop.  An exception leaves the with block,
\* which releases the lock, and is caught at line 225: back to recvfrom.
UdpEntry ==
    /\ udp.pc = "loop"
    /\ udp.i <= Len(Entries(udp.json))
    /\ \E r \in {ProcessEntry(filters, Entries(udp.json)[udp.i], udp.current_time, now)} :
       LET raised == r.did.op \in {"raise", "update_raise"}
       IN  /\ filters' = r.filters
           /\ filters_lock' = IF raised THEN "none" ELSE filters_lock
           /\ udp' = [udp EXCEPT
                        !.pc = IF raised THEN "recv" ELSE "loop",
                        !.i = @ + 1,
                        !.upserted = IF r.did.op \in {"create", "update"}
                                     THEN Append(@, udp.i) ELSE @,
                        !.bad = @ \/ raised,
                        !.last = r.did]
    /\ UNCHANGED << now, clients, clients_lock, sock, delivered, pred, tcp >>

\* A defective listener that takes and frees the lock by hand and leaves
\* the release out at the end of the loop.
UdpDoneKeepsLock ==
    /\ udp.pc = "loop"
    /\ udp.i > Len(Entries(udp.json))
    /\ udp' = [udp EXCEPT !.pc = "recv", !.last = Did("done", "", <<>>, <<>>)]
    /\ UNCHANGED << now, filters, filters_lock, clients, clients_lock, sock,
                    delivered, pred, tcp >>

\* the for loop is exhausted: the with block releases the lock
UdpDone ==
    /\ udp.pc = "loop"
    /\ udp.i > Len(Entries(udp.json))
    /\ filters_lock' = "none"
    /\ udp' = [udp EXCEPT !.pc = "recv", !.last = Did("done", "", <<>>, <<>>)]
    /\ UNCHANGED << now, filters, clients, clients_lock, sock, delivered, pred, tcp >>

(***************************************************************************)
(* prediction_thread (lines 237-251) and broadcast (lines 256-273).        *)
(***************************************************************************)
\* current_time = time.time(); messages = []
PredTick ==
    /\ pred.pc = "tick"
    /\ pred.n < MaxTicks
    /\ pred' = [pred EXCEPT !.pc = "acquire", !.current_time = now,
                            !.messages = <<>>, !.failed = {}, !.items = <<>>,
                            !.i = 1, !.cl = <<>>, !.j = 1,
                            !.last = Did("tick", "", <<>>, <<>>)]
    /\ UNCHANGED << now, filters, filters_lock, clients, clients_lock, sock,
                    delivered, udp, tcp >>

\* A defective scheduler that reads the registry without taking the lock.
PredAcquireNoLock ==
    /\ pred.pc = "acquire"
    /\ pred' = [pred EXCEPT !.pc = "gen", !.i = 1,
                            !.items = [i \in DOMAIN filters |-> filters[i][1]],
                            !.last = Did("acquire", "", <<>>, <<>>)]
    /\ UNCHANGED << now, filters, filters_lock, clients, clients_lock, sock,
                    delivered, udp, tcp >>

\* with filters_lock: ... list(filters.items())
PredAcquire ==
    /\ pred.pc = "acquire"
    /\ filters_lock = "none"
    /\ filters_lock' = "pred"
    /\ pred' = [pred EXCEPT !.pc = "gen", !.i = 1,
                            !.items = [i \in DOMAIN filters |-> filters[i][1]],
                            !.last = Did("acquire", "", <<>>, <<>>)]
    /\ UNCHANGED << now, filters, clients, clients_lock, sock, delivered, udp, tcp >>

\* A defective scheduler without the try/except of lines 242-247: the
\* exception leaves the with block, which releases the lock, and ends the
\* thread.
PredGenUncaught ==
    /\ pred.pc = "gen"
    /\ pred.i <= Len(pred.items)
    /\ \E kf \in {Get(filters, pred.items[pred.i])} :
       \E r \in {generate_sbs_from_filter(kf, pred.current_time)} :
       LET icao == pred.items[pred.i]
       IN  /\ filters' = Put(filters, icao, r.kf)
           /\ filters_lock' = IF r.raised THEN "none" ELSE filters_lock
           /\ pred' = [pred EXCEPT
                         !.pc = IF r.raised THEN "dead" ELSE "gen",
                         !.i = @ + 1,
                         !.messages = IF r.raised THEN @ ELSE Append(@, r.line),
                         !.failed = IF r.raised THEN @ \cup {icao} ELSE @,
                         !.last = Did(IF r.raised THEN "gen_raise" ELSE "gen",
                                      icao, <<kf>>, r.pdt)]
    /\ UNCHANGED << now, clients, clients_lock, sock, delivered, udp, tcp >>

\* one iteration of the for loop: the try/except of lines 242-247
PredGen ==
    /\ pred.pc = "gen"
    /\ pred.i <= Len(pred.items)
    /\ \E kf \in {Get(filters, pred.items[pred.i])} :
       \E r \in {generate_sbs_from_filter(kf, pred.current_time)} :
       LET icao == pred.items[pred.i]
       IN  /\ filters' = Put(filters, icao, r.kf)
           /\ pred' = [pred EXCEPT
                         !.i = @ + 1,
                         !.messages = IF r.raised THEN @ ELSE Append(@, r.line),
                         !.failed = IF r.raised THEN @ \cup {icao} ELSE @,
                         !.last = Did(IF r.raised THEN "gen_raise" ELSE "gen",
                                      icao, <<kf>>, r.pdt)]
    /\ UNCHANGED << now, filters_lock, clients, clients_lock, sock, delivered,
                    udp, tcp >>

\* A defective scheduler whose broadcast call sits inside the with block:
\* the registry lock is still held when the fan-out starts.
PredReleaseInsideWith ==
    /\ pred.pc = "gen"
    /\ pred.i > Len(pred.items)
    /\ pred' = [pred EXCEPT !.pc = IF pred.messages # <<>> THEN "bcast" ELSE "sleep",
                            !.last = Did("release", "", <<>>, <<>>)]
    /\ UNCHANGED << now, filters, filters_lock, clients, clients_lock, sock,
                    delivered, udp, tcp >>

\* the for loop is exhausted: the lock is released; if messages: broadcast
PredRelease ==
    /\ pred.pc = "gen"
    /\ pred.i > Len(pred.items)
    /\ filters_lock' = "none"
    /\ pred' = [pred EXCEPT !.pc = IF pred.messages # <<>> THEN "bcast" ELSE "sleep",
                            !.last = Did("release", "", <<>>, <<>>)]
    /\ UNCHANGED << now, filters, clients, clients_lock, sock, delivered, udp, tcp >>

\* broadcast: with clients_lock: for client in clients[:]
BcastAcquire ==
    /\ pred.pc = "bcast"
    /\ clients_lock = "none"
    /\ clients_lock' = "pred"
    /\ pred' = [pred EXCEPT !.pc = "send", !.cl = clients, !.j = 1,
                            !.last = Did("bcast_acquire", "", <<>>, <<>>)]
    /\ UNCHANGED << now, filters, filters_lock, clients, sock, delivered, udp, tcp >>

\* A defective fan-out whose handler closes the failed client and leaves it
\* in the list.
BcastSendNoRemove ==
    /\ pred.pc = "send"
    /\ pred.j <= Len(pred.cl)
    /\ sock[pred.cl[pred.j]] # "stalled"
    /\ LET c == pred.cl[pred.j]
       IN  IF sock[c] = "open"
           THEN /\ delivered' = [delivered EXCEPT ![c] = Append(@, pred.n)]
                /\ pred' = [pred EXCEPT !.j = @ + 1,
                                        !.last = Did("send", "", <<>>, <<>>)]
                /\ UNCHANGED << clients, sock >>
           ELSE /\ sock' = [sock EXCEPT ![c] = "closed"]
                /\ pred' = [pred EXCEPT !.j = @ + 1,
                                        !.last = Did("send_raise", "", <<>>, <<>>)]
                /\ UNCHANGED << clients, delivered >>
    /\ UNCHANGED << now, filters, filters_lock, clients_lock, udp, tcp >>

\* A defective fan-out that leaves the loop after its first client.
BcastSendFirstOnly ==
    /\ pred.pc = "send"
    /\ pred.j <= Len(pred.cl)
    /\ sock[pred.cl[pred.j]] # "stalled"
    /\ LET c == pred.cl[pred.j]
       IN  IF sock[c] = "open"
           THEN /\ delivered' = [delivered EXCEPT ![c] = Append(@, pred.n)]
                /\ pred' = [pred EXCEPT !.j = Len(pred.cl) + 1,
                                        !.last = Did("send", "", <<>>, <<>>)]
                /\ UNCHANGED << clients, sock >>
           ELSE /\ clients' = Remove(clients, c)
                /\ sock' = [sock EXCEPT ![c] = "closed"]
                /\ pred' = [pred EXCEPT !.j = Len(pred.cl) + 1,
                                        !.last = Did("send_raise", "", <<>>, <<>>)]
                /\ UNCHANGED delivered
    /\ UNCHANGED << now, filters, filters_lock, clients_lock, udp, tcp >>

\* client.sendall(...): on a socket whose peer is gone it raises, and the
\* handler removes the client from the list and closes it; on a blocking
\* socket whose send buffer is full it does not return
BcastSend ==
    /\ pred.pc = "send"
    /\ pred.j <= Len(pred.cl)
    /\ sock[pred.cl[pred.j]] # "stalled"
    /\ LET c == pred.cl[pred.j]
       IN  IF sock[c] = "open"
           THEN /\ delivered' = [delivered EXCEPT ![c] = Append(@, pred.n)]
                /\ pred' = [pred EXCEPT !.j = @ + 1,
                                        !.last = Did("send", "", <<>>, <<>>)]
                /\ UNCHANGED << clients, sock >>
           ELSE /\ clients' = Remove(clients, c)
                /\ sock' = [sock EXCEPT ![c] = "closed"]
                /\ pred' = [pred EXCEPT !.j = @ + 1,
                                        !.last = Did("send_raise", "", <<>>, <<>>)]
                /\ UNCHANGED delivered
    /\ UNCHANGED << now, filters, filters_lock, clients_lock, udp, tcp >>

\* the for loop of broadcast is exhausted: the lock is released
BcastRelease ==
    /\ pred.pc = "send"
    /\ pred.j > Len(pred.cl)
    /\ clients_lock' = "none"
    /\ pred' = [pred EXCEPT !.pc = "sleep",
                            !.last = Did("bcast_release", "", <<>>, <<>>)]
    /\ UNCHANGED << now, filters, filters_lock, clients, sock, delivered, udp, tcp >>

\* time.sleep(0.1), then the next cycle
PredSleep ==
    /\ pred.pc = "sleep"
    /\ pred' = [pred EXCEPT !.pc = "tick", !.n = @ + 1,
                            !.last = Did("sleep", "", <<>>, <<>>)]
    /\ UNCHANGED << now, filters, filters_lock, clients, clients_lock, sock,
                    delivered, udp, tcp >>

(***************************************************************************)
(* tcp_server (lines 286-296).                                             *)
(***************************************************************************)
\* server_sock.accept() returns a new connection
TcpAccept(s) ==
    /\ tcp.pc = "accept"
    /\ udp.n + tcp.n < MaxInputs
    /\ sock[s] = "free"
    /\ \A t \in Sockets : t < s => sock[t] # "free"
    /\ sock' = [sock EXCEPT ![s] = "open"]
    /\ tcp' = [tcp EXCEPT !.pc = "add", !.sock = s, !.n = @ + 1]
    /\ UNCHANGED << now, filters, filters_lock, clients, clients_lock, delivered,
                    udp, pred >>

\* A defective accept loop that appends without taking clients_lock.
TcpAddUnlocked ==
    /\ tcp.pc = "add"
    /\ clients' = Append(clients, tcp.sock)
    /\ tcp' = [tcp EXCEPT !.pc = "accept"]
    /\ UNCHANGED << now, filters, filters_lock, clients_lock, sock, delivered,
                    udp, pred >>

\* with clients_lock: clients.append(client_sock)
TcpAdd ==
    /\ tcp.pc = "add"
    /\ clients_lock = "none"
    /\ clients' = Append(clients, tcp.sock)
    /\ tcp' = [tcp EXCEPT !.pc = "accept"]
    /\ UNCHANGED << now, filters, filters_lock, clients_lock, sock, delivered,
                    udp, pred >>

\* server_sock.accept() raises: the handler of line 293 and its
\* time.sleep(1), then accept again
TcpAcceptError ==
    /\ tcp.pc = "accept"
    /\ tcp' = [tcp EXCEPT !.pc = "accept"]
    /\ UNCHANGED << now, filters, filters_lock, clients, clients_lock, sock,
                    delivered, udp, pred >>

(***************************************************************************)
(* The environment: the wall clock advances; a subscriber goes away.       *)
(***************************************************************************)
Advance ==
    /\ now < MaxTime
    /\ now' = now + 1
    /\ UNCHANGED << filters, filters_lock, clients, clients_lock, sock, delivered,
                    udp, pred, tcp >>

PeerReset(s) ==
    /\ sock[s] \in {"open", "stalled"}
    /\ sock' = [sock EXCEPT ![s] = "reset"]
    /\ UNCHANGED << now, filters, filters_lock, clients, clients_lock, delivered,
                    udp, pred, tcp >>

Next ==
    \/ \E d \in DOMAIN Datagrams : UdpRecv(d)
    \/ UdpAcquire
    \/ UdpEntry
    \/ UdpDone
    \/ PredTick
    \/ PredAcquire
    \/ PredGen
    \/ PredRelease
    \/ BcastAcquire
    \/ BcastSend
    \/ BcastRelease
    \/ PredSleep
    \/ \E s \in Sockets : TcpAccept(s)
    \/ TcpAdd
    \/ TcpAcceptError
    \/ Advance
    \/ \E s \in Sockets : PeerReset(s)

Spec == Init /\ [][Next]_vars

(***************************************************************************)
(* The program with subscribers that stop reading: the sockets of accept   *)
(* are blocking and have no timeout, so sendall on a connection whose      *)
(* send buffer is full waits until the peer reads or the connection fails. *)
(***************************************************************************)
PeerStall(s) ==
    /\ sock[s] = "open"
    /\ sock' = [sock EXCEPT ![s] = "stalled"]
    /\ UNCHANGED << now, filters, filters_lock, clients, clients_lock, delivered,
                    udp, pred, tcp >>

StallNext ==
    \/ \E d \in DOMAIN Datagrams : UdpRecv(d)
    \/ UdpAcquire
    \/ UdpEntry
    \/ UdpDone
    \/ PredTick
    \/ PredAcquire
    \/ PredGen
    \/ PredRelease
    \/ BcastAcquire
    \/ BcastSend
    \/ BcastRelease
    \/ PredSleep
    \/ \E s \in Sockets : TcpAccept(s)
    \/ TcpAdd
    \/ TcpAcceptError
    \/ Advance
    \/ \E s \in Sockets : PeerReset(s)
    \/ \E s \in Sockets : PeerStall(s)

StallSpec == Init /\ [][StallNext]_vars

\* the innovation covariance of every filter is diagonal (see IsSingular)
SIsDiagonal == \A i \in DOMAIN filters : IsDiagonal(InnovationCov(filters[i][2]))

(***************************************************************************)
(* predict on its own: a filter drawn from a bounded set of constructed    *)
(* filters, and predict(dt) applied to it up to MaxPredicts times.         *)
(***************************************************************************)
PredictInputs ==
    { KalmanFilterLocal(5200000, 400000, alt_m, vx, vy, v_alt,
                        "ABC123", "KLM1", "7000", 0) :
        alt_m \in {10000, NaN}, vx \in {0, 200, 0 - 150}, vy \in {0, 100},
        v_alt \in {0, 5} }

PredictInit ==
    /\ filters \in { << <<"ABC123", kf>> >> : kf \in PredictInputs }
    /\ InitThreads

ApplyPredict(dt) ==
    /\ pred.n < MaxPredicts
    /\ \E kf \in {filters[1][2]} :
         /\ filters' = << <<filters[1][1], predict(kf, dt)>> >>
         /\ pred' = [pred EXCEPT !.n = @ + 1,
                                 !.last = Did("predict", filters[1][1], <<kf>>, <<dt>>)]
    /\ UNCHANGED << now, filters_lock, clients, clients_lock, sock, delivered,
                    udp, tcp >>

PredictNext == \E dt \in 0..MaxTime : ApplyPredict(dt)

PredictSpec == PredictInit /\ [][PredictNext]_vars

(***************************************************************************)
(* generate_sbs_from_filter on its own: a track created from one report    *)
(* of a bounded set at time 0, and lines generated for it at the times of  *)
(* the clock, up to MaxEncodes times.                                      *)
(***************************************************************************)
EncodeReports ==
    { Report("abc123", Num(5200000), Num(400000), alt, Num(20000), Num(hdg),
             Num(ver), "KLM1 ", "7000") :
        alt \in {Num(10000000), NaNVal},
        hdg \in {0, 4500, 9000, 18000, 27000, 35971},
        ver \in {0, 0 - 500} }

EncodeInit ==
    /\ filters \in { ProcessEntry(<<>>, ac, 0, 0).filters : ac \in EncodeReports }
    /\ InitThreads

Encode ==
    /\ pred.n < MaxEncodes
    /\ \E kf \in {filters[1][2]} :
       \E r \in {generate_sbs_from_filter(kf, now)} :
         /\ filters' = << <<filters[1][1], r.kf>> >>
         /\ pred' = [pred EXCEPT
                       !.n = @ + 1,
                       !.current_time = now,
                       !.messages = IF r.raised THEN @ ELSE Append(@, r.line),
                       !.last = Did(IF r.raised THEN "gen_raise" ELSE "gen",
                                    filters[1][1], <<kf>>, r.pdt)]
    /\ UNCHANGED << now, filters_lock, clients, clients_lock, sock, delivered,
                    udp, tcp >>

EncodeNext == Encode \/ Advance

EncodeSpec == EncodeInit /\ [][EncodeNext]_vars

(***************************************************************************)
(* latlon_to_xy and xy_to_latlon on their own: a reference point and a     *)
(* point around it drawn from bounded sets (in 1e-7 degree), projected and *)
(* projected back.  pred.last holds the arguments (pre) and the result of  *)
(* the last call (pdt).  The reference latitudes stay away from the poles, *)
(* where the thousandths of the model's cosine are too coarse.             *)
(***************************************************************************)
ProjectRefs ==
    { << 0, 0 >>, << 520000000, 40000000 >>, << 0 - 339000000, 1512000000 >>,
      << 800000000, 0 - 1799000000 >> }
ProjectOffsets == { 0 - 10000000, 0 - 123457, 0, 1, 5000000 }
ProjectInputs ==
    { [ref_lat |-> r[1], ref_lon |-> r[2], lat |-> r[1] + dlat, lon |-> r[2] + dlon] :
        r \in ProjectRefs, dlat \in ProjectOffsets, dlon \in ProjectOffsets }

ProjectInit ==
    /\ now = 0
    /\ filters = <<>>
    /\ filters_lock = "none"
    /\ clients = <<>>
    /\ clients_lock = "none"
    /\ sock = [s \in Sockets |-> "free"]
    /\ delivered = [s \in Sockets |-> <<>>]
    /\ udp = [pc |-> "recv", json |-> 1, current_time |-> 0, i |-> 1,
              n |-> 0, upserted |-> <<>>, bad |-> FALSE, last |-> Nothing]
    /\ pred \in { [pc |-> "tick", current_time |-> 0, items |-> <<>>, i |-> 1,
                   messages |-> <<>>, failed |-> {}, cl |-> <<>>, j |-> 1,
                   n |-> 0, last |-> Did("point", "", <<pt>>, <<>>)] :
                  pt \in ProjectInputs }
    /\ tcp = [pc |-> "accept", sock |-> 0, n |-> 0]

Project ==
    /\ pred.last.op = "point"
    /\ \E pt \in {pred.last.pre[1]} :
         pred' = [pred EXCEPT !.last =
                    Did("xy", "", <<pt>>,
                        latlon_to_xy_fine(pt.lat, pt.lon, pt.ref_lat, pt.ref_lon))]
    /\ UNCHANGED << now, filters, filters_lock, clients, clients_lock, sock,
                    delivered, udp, tcp >>

Unproject ==
    /\ pred.last.op = "xy"
    /\ \E pt \in {pred.last.pre[1]} :
         pred' = [pred EXCEPT !.last =
                    Did("latlon", "", <<pt>>,
                        xy_to_latlon_fine(pred.last.pdt[1], pred.last.pdt[2],
                                          pt.ref_lat, pt.ref_lon))]
    /\ UNCHANGED << now, filters, filters_lock, clients, clients_lock, sock,
                    delivered, udp, tcp >>

ProjectNext == Project \/ Unproject

ProjectSpec == ProjectInit /\ [][ProjectNext]_vars

(***************************************************************************)
(* The listener on a registry that holds a track whose innovation          *)
(* covariance S = H P H.T + R is singular, at once (position variances     *)
(* -R) or after any predict (position variances -R - Q, velocity           *)
(* variances 0).  The running program does not produce such a P: P is set  *)
(* here as an assignment to the attribute of the object would set it.      *)
(***************************************************************************)
SingularP(c) == Mat([i \in 1..6, j \in 1..6 |-> IF i = j /\ i <= 3 THEN c ELSE 0], 6, 6)

SingularInit ==
    /\ filters \in
         { << <<"ABC123",
                [ProcessEntry(<<>>, RepA1, 0, 0).filters[1][2]
                   EXCEPT !.P = SingularP(c)]>> >> :
             c \in {0 - 10 * PScale, 0 - 10 * PScale - 1} }
    /\ InitThreads

ListenerNext ==
    \/ \E d \in DOMAIN Datagrams : UdpRecv(d)
    \/ UdpAcquire
    \/ UdpEntry
    \/ UdpDone
    \/ Advance

SingularSpec == SingularInit /\ [][ListenerNext]_vars

(***************************************************************************)
(* Properties.                                                             *)
(***************************************************************************)
Last(q) == q[Len(q)]
CountKey(d, k) == Cardinality({ i \in DOMAIN d : d[i][1] = k })
Range(q) == { q[i] : i \in DOMAIN q }

\* C1: after every upsert (the creating one included) the registry holds
\* exactly one track for the key and its last-update time is the timestamp
\* of that upsert (the listener's current_time).
C1_UpsertTimestamp ==
    udp.last.op \in {"create", "update"} =>
        /\ CountKey(filters, udp.last.key) = 1
        /\ Get(filters, udp.last.key).last_time = udp.current_time

\* C2: in one broadcast cycle a failed write removes exactly that
\* subscriber from the set and closes it, every other subscriber of the
\* cycle is written the batch and stays in the set, and the failure does
\* not leave the cycle (the loop goes on, holding the lock).
Wrote(c) == delivered[c] # <<>> /\ Last(delivered[c]) = pred.n

C2_FanOutIsolation ==
    /\ pred.last.op = "send_raise" => pred.pc = "send" /\ clients_lock = "pred"
    /\ pred.pc = "send" =>
         /\ \A q \in DOMAIN pred.cl :
              LET c == pred.cl[q]
              IN  IF q >= pred.j THEN c \in Range(clients)
                  ELSE IF sock[c] = "closed"
                       THEN c \notin Range(clients) /\ ~Wrote(c)
                       ELSE c \in Range(clients) /\ Wrote(c)
         /\ clients = SelectSeq(pred.cl, LAMBDA c : sock[c] # "closed")

\* a finished cycle over two subscribers in which the write to one failed
\* and the batch was then written to a later one
C2_Witness ==
    /\ pred.pc = "send"
    /\ pred.j > Len(pred.cl)
    /\ \E q1, q2 \in DOMAIN pred.cl :
         /\ q1 < q2
         /\ sock[pred.cl[q1]] = "closed"
         /\ Wrote(pred.cl[q2])

\* The entries of a datagram that have every required field, and those
\* whose numeric fields convert.
HasRequired(ac) ==
    /\ Upper(ac.icaoAddress) # ""
    /\ ac.latDD.tag # "absent"
    /\ ac.lonDD.tag # "absent"
    /\ ac.altitudeMM.tag # "absent"
Converts(ac) ==
    /\ ~FloatRaises(ac.altitudeMM)
    /\ ~FloatRaises(GetOr(ac.horVelocityCMS, 0))
    /\ ~FloatRaises(GetOr(ac.headingDE2, 0))
    /\ ~FloatRaises(GetOr(ac.verVelocityCMS, 0))
ValidEntries(d) ==
    { i \in DOMAIN Entries(d) : HasRequired(Entries(d)[i]) /\ Converts(Entries(d)[i]) }
DatagramOver ==
    udp.pc = "recv" /\ udp.last.op \in {"done", "raise", "update_raise"}

\* C3: when the listener is through with a datagram that holds an entry
\* lacking a required field, the entries passed to upsert are exactly the
\* valid entries of the datagram, those after the skipped one included.
C3_SkipKeepsBatch ==
    ( /\ DatagramOver
      /\ \E i \in DOMAIN Entries(udp.json) : ~HasRequired(Entries(udp.json)[i]) )
    => Range(udp.upserted) = ValidEntries(udp.json)

\* C4: when the processing of an entry raised, every valid entry of the
\* same datagram has still been upserted.
C4_EntryErrorIsolated ==
    udp.pc = "recv" /\ udp.last.op \in {"raise", "update_raise"}
    => \A i \in ValidEntries(udp.json) : i \in Range(udp.upserted)

(***************************************************************************)
(* The threads are scheduled: a step of the listener or of the scheduler   *)
(* that stays possible is taken.  The listener gets the registry lock      *)
(* because the scheduler frees it in every cycle (it sleeps between two    *)
(* cycles with the lock free).  No subscriber is connected here: the       *)
(* listener does not depend on them.                                       *)
(***************************************************************************)
IngestNext ==
    \/ \E d \in DOMAIN Datagrams : UdpRecv(d)
    \/ UdpAcquire
    \/ UdpEntry
    \/ UdpDone
    \/ PredTick
    \/ PredAcquire
    \/ PredGen
    \/ PredRelease
    \/ BcastAcquire
    \/ BcastRelease
    \/ PredSleep
    \/ Advance

FairSpec ==
    /\ Init
    /\ [][IngestNext]_vars
    /\ SF_vars(UdpAcquire)
    /\ WF_vars(UdpEntry)
    /\ WF_vars(UdpDone)
    /\ WF_vars(PredGen)
    /\ WF_vars(PredRelease)

(***************************************************************************)
(* The whole program with its threads scheduled and subscriber writes that *)
(* return: a thread that waits for a lock gets it when the lock is free    *)
(* again and again (each holder leaves its block and then sleeps or waits  *)
(* for input with the lock free), and a thread inside a with block goes on *)
(* to the end of the block.  The clock stays at 0 here: no lock depends on *)
(* the time.                                                               *)
(***************************************************************************)
LockNext ==
    \/ \E d \in DOMAIN Datagrams : UdpRecv(d)
    \/ UdpAcquire
    \/ UdpEntry
    \/ UdpDone
    \/ PredTick
    \/ PredAcquire
    \/ PredGen
    \/ PredRelease
    \/ BcastAcquire
    \/ BcastSend
    \/ BcastRelease
    \/ PredSleep
    \/ \E s \in Sockets : TcpAccept(s)
    \/ TcpAdd
    \/ TcpAcceptError
    \/ \E s \in Sockets : PeerReset(s)

FairLockSpec ==
    /\ Init
    /\ [][LockNext]_vars
    /\ SF_vars(UdpAcquire)
    /\ SF_vars(PredAcquire)
    /\ SF_vars(BcastAcquire)
    /\ SF_vars(TcpAdd)
    /\ WF_vars(UdpEntry)
    /\ WF_vars(UdpDone)
    /\ WF_vars(PredGen)
    /\ WF_vars(PredRelease)
    /\ WF_vars(BcastSend)
    /\ WF_vars(BcastRelease)

BadInput == {"recv_raise", "recv_ignore", "raise", "update_raise"}

\* C5: after an undecodable datagram, a record without an aircraft array or
\* a failure in an entry, the listener is back at recvfrom without the
\* registry lock; the listener is always at one of its statements, and from
\* any of them it eventually returns to recvfrom; a valid datagram received
\* after a bad input eventually has its entry upserted.
C5_IngestSurvives ==
    /\ [](udp.last.op \in BadInput => udp.pc = "recv" /\ filters_lock # "udp")
    /\ [](udp.pc \in {"recv", "acquire", "loop"})
    /\ (udp.pc # "recv") ~> (udp.pc = "recv")
    /\ (udp.bad /\ udp.pc = "acquire" /\ udp.json = 3)
         ~> (udp.last.op \in {"create", "update"})

\* an entry of a datagram is upserted after an earlier input was rejected
C5_Witness ==
    /\ udp.bad
    /\ udp.n = 2
    /\ udp.i = 2
    /\ udp.last.op \in {"create", "update"}

\* The HexIdent fields of a batch.
LineKeys(messages) == [q \in DOMAIN messages |-> messages[q][5]]
Processed == SubSeq(pred.items, 1, pred.i - 1)

\* C6: a failure on one track leaves the loop of the tick running with the
\* lock held; the batch holds exactly one line, in order, for every track
\* of the snapshot processed so far whose line did not fail; a batch that
\* is not empty goes to broadcast, and the scheduler stays at one of its
\* statements.
C6_TickIsolation ==
    /\ pred.last.op = "gen_raise" => pred.pc = "gen" /\ filters_lock = "pred"
    /\ pred.pc \in {"tick", "acquire", "gen", "bcast", "send", "sleep"}
    /\ pred.pc \in {"gen", "bcast", "send", "sleep"} =>
         LineKeys(pred.messages)
           = SelectSeq(Processed, LAMBDA k : k \notin pred.failed)
    /\ pred.pc \in {"bcast", "send", "sleep"} => pred.i = Len(pred.items) + 1
    /\ pred.last.op = "release" =>
         (pred.pc = "bcast" <=> pred.messages # <<>>)

\* a batch on its way to broadcast from a tick in which one track failed
C6_Witness ==
    /\ pred.pc = "bcast"
    /\ pred.failed # {}
    /\ pred.messages # <<>>
    /\ Len(pred.items) = Len(pred.messages) + Cardinality(pred.failed)

\* C7: every dt handed to predict, by update or by the tick, is positive;
\* an update or a tick for a track with no elapsed time (or a negative one)
\* hands none, and such a tick leaves the track as it was.
C7_PredictSkipped ==
    /\ \A q \in DOMAIN udp.last.pdt : udp.last.pdt[q] > 0
    /\ \A q \in DOMAIN pred.last.pdt : pred.last.pdt[q] > 0
    /\ ( /\ udp.last.op \in {"update", "update_raise"}
         /\ udp.current_time - udp.last.pre[1].last_time <= 0 )
       => udp.last.pdt = <<>>
    /\ ( /\ pred.last.op \in {"gen", "gen_raise"}
         /\ pred.current_time - pred.last.pre[1].last_time <= 0 )
       => /\ pred.last.pdt = <<>>
          /\ Get(filters, pred.last.key) = pred.last.pre[1]

\* a tick has processed a track whose last-update time is not in the past
C7_Witness ==
    /\ pred.last.op = "gen"
    /\ pred.current_time - pred.last.pre[1].last_time <= 0
    /\ Get(filters, pred.last.key).state = pred.last.pre[1].state

\* C10: whatever field fails to convert, the tick appends a line of 22
\* fields for the track it has just processed.
C10_FieldFailureYieldsLine ==
    pred.last.op \in {"gen", "gen_raise"} =>
        /\ pred.messages # <<>>
        /\ Len(Last(pred.messages)) = 22
        /\ Last(pred.messages)[5] = pred.last.key

RegistryKeys == [i \in DOMAIN filters |-> filters[i][1]]
WritesOf(c, n) == Cardinality({ q \in DOMAIN delivered[c] : delivered[c][q] = n })

\* C11: on a tick the snapshot is the registry as it is under the lock;
\* when no line fails and the registry is not empty the batch holds exactly
\* one line for every track of the snapshot (none missing, none twice) and
\* goes to broadcast; at the end of the fan-out every subscriber of the
\* cycle has been written that batch in one write, or its write failed and
\* it was dropped.
C11_TickCompleteness ==
    /\ pred.pc = "gen" => pred.items = RegistryKeys
    /\ (pred.pc \in {"bcast", "send"} \/ pred.last.op \in {"release", "bcast_release"})
       /\ pred.failed = {} =>
         /\ Len(pred.messages) = Len(pred.items)
         /\ \A k \in Range(pred.items) :
              Cardinality({ q \in DOMAIN pred.messages : pred.messages[q][5] = k }) = 1
    /\ pred.last.op = "release" /\ pred.items # <<>> /\ pred.failed = {} =>
         pred.pc = "bcast"
    /\ pred.pc = "send" =>
         \A q \in 1..(pred.j - 1) :
            LET c == pred.cl[q]
            IN  \/ c \in Range(clients) /\ WritesOf(c, pred.n) = 1
                \/ c \notin Range(clients) /\ sock[c] = "closed"
                   /\ WritesOf(c, pred.n) = 0
    /\ pred.last.op = "bcast_release" =>
         \A c \in Range(pred.cl) :
            \/ c \in Range(clients) /\ WritesOf(c, pred.n) = 1
            \/ c \notin Range(clients) /\ sock[c] = "closed"

\* a batch of two tracks has been written to the two subscribers of the set
C11_Witness ==
    /\ pred.last.op = "bcast_release"
    /\ pred.failed = {}
    /\ Len(pred.messages) = 2
    /\ Len(pred.cl) = 2
    /\ \A c \in Range(pred.cl) : Wrote(c)

\* C12: the registry lock is not held across a network call: the listener
\* does not hold it while it waits in recvfrom, and the scheduler does not
\* hold it from the call of broadcast to its return (the writes to the
\* subscribers).
C12_NoLockAcrossNetwork ==
    /\ udp.pc = "recv" => filters_lock # "udp"
    /\ pred.pc \in {"bcast", "send"} => filters_lock # "pred"
    /\ filters_lock = "udp" <=> udp.pc = "loop"
    /\ filters_lock = "pred" <=> pred.pc = "gen"

\* a write to a subscriber is due while the listener holds the registry lock
C12_Witness ==
    /\ pred.pc = "send"
    /\ pred.j <= Len(pred.cl)
    /\ filters_lock = "udp"
    /\ udp.pc = "loop"

\* C14: clients_lock is held from the start of a fan-out to its end, and
\* while it is held the set changes only by the removals of the fan-out:
\* the accept loop waits with its new subscriber, the members of the set
\* are members of the copy taken at the start, the subscribers written in
\* the cycle are members of that copy, and a subscriber that is not yet in
\* the set has been written nothing.
C14_FanOutHoldsClientsLock ==
    /\ pred.pc = "send" <=> clients_lock = "pred"
    /\ clients_lock \in {"none", "pred"}
    /\ pred.pc = "send" =>
         /\ Range(clients) \subseteq Range(pred.cl)
         /\ clients = SelectSeq(pred.cl, LAMBDA c : c \in Range(clients))
         /\ \A c \in Sockets : Wrote(c) => c \in Range(pred.cl)
         /\ \A q \in pred.j..Len(pred.cl) : pred.cl[q] \in Range(clients)
    /\ tcp.pc = "add" =>
         /\ tcp.sock \notin Range(clients)
         /\ delivered[tcp.sock] = <<>>
    /\ \A c \in Sockets : sock[c] = "free" => delivered[c] = <<>>

\* the accept loop has a new subscriber and waits for the lock while a
\* fan-out still has a subscriber of its copy to write
C14_Witness ==
    /\ pred.pc = "send"
    /\ tcp.pc = "add"
    /\ clients # <<>>
    /\ pred.j <= Len(pred.cl)

\* C15: no step removes a track or moves a reference origin: the keys of
\* the registry before a step are keys after it, and every track keeps its
\* ref_lat and ref_lon.
C15_TracksNeverRemoved ==
    [][/\ Keys(filters) \subseteq Keys(filters')
       /\ \A k \in Keys(filters) :
            /\ CountKey(filters', k) = 1
            /\ Get(filters', k).ref_lat = Get(filters, k).ref_lat
            /\ Get(filters', k).ref_lon = Get(filters, k).ref_lon]_vars

\* a track next to another one has been updated with a report from another
\* position than the one it was created at
C15_Witness ==
    /\ udp.last.op = "update"
    /\ Len(filters) = 2
    /\ Get(filters, udp.last.key).state # udp.last.pre[1].state
    /\ Get(filters, udp.last.key).state[1] # 0
    /\ Get(filters, udp.last.key).ref_lat = udp.last.pre[1].ref_lat

WritePending ==
    /\ pred.pc = "send"
    /\ pred.j <= Len(pred.cl)
    /\ sock[pred.cl[pred.j]] = "stalled"

\* the statements of the scheduler, from one tick to the next
SchedulerStep ==
    \/ PredTick
    \/ PredAcquire
    \/ PredGen
    \/ PredRelease
    \/ BcastAcquire
    \/ BcastSend
    \/ BcastRelease
    \/ PredSleep

\* C13: while a write to a subscriber that does not read is pending, the
\* listener is not kept from the registry and the scheduler is not kept
\* from its next statement (the rest of the fan-out and the next tick).
C13_NoBackpressure ==
    WritePending => filters_lock # "pred" /\ ENABLED SchedulerStep

\* C17: a second generation for the same time, with no upsert in between,
\* leaves the track as the first one left it (state, covariance, last
\* update time) and yields the same line, or fails as the first one did.
C17_EncoderDeterminism ==
    [][pred'.n = pred.n + 1 /\ pred.n >= 1
       /\ pred'.current_time = pred.current_time =>
         /\ filters' = filters
         /\ pred'.last.pdt = <<>>
         /\ pred'.last.op = pred.last.op
         /\ pred.last.op = "gen" =>
              /\ Len(pred'.messages) = Len(pred.messages) + 1
              /\ Last(pred'.messages) = Last(pred.messages)]_vars

\* two lines have been generated at time 1 for a track that the first of
\* the two generations has moved from where the report put it
C17_Witness ==
    /\ pred.n = 2
    /\ now = 1
    /\ pred.last.op = "gen"
    /\ pred.last.pdt = <<>>
    /\ Len(pred.messages) = 2
    /\ pred.messages[1] = pred.messages[2]
    /\ filters[1][2].last_time = 1
    /\ filters[1][2].state[1] # 0
    /\ filters[1][2].P # P0

\* C18: the track field (field 14) of every generated line is the decimal
\* form of an integer of 0..359.
C18_TrackBelow360 ==
    pred.last.op = "gen" =>
        Last(pred.messages)[14] \in { Str(deg) : deg \in 0..359 }

\* C19: the first report of "ABC123" at 52.00000 / 4.00000, 10,000,000 mm,
\* 20,000 cm/s, heading 9000 and vertical speed 0 creates a track at the
\* origin of its own reference with vx = 200 and vy = 0, and the line
\* generated for that track with dt = 0 has altitude 32808, ground speed
\* 389, track 90, latitude 52.00000, longitude 4.00000 and vertical rate 0.
C19_FirstReportScenario ==
    /\ udp.last.op = "create" /\ udp.pc = "loop"
       /\ Entries(udp.json)[udp.i - 1] = RepA1 =>
         /\ udp.last.key = "ABC123"
         /\ Get(filters, "ABC123").state = << 0, 0, 10000, 200, 0, 0 >>
         /\ Get(filters, "ABC123").ref_lat = 5200000
         /\ Get(filters, "ABC123").ref_lon = 400000
    /\ pred.last.op \in {"gen", "gen_raise"} /\ pred.last.key = "ABC123"
       /\ pred.last.pdt = <<>>
       /\ pred.last.pre[1].state = << 0, 0, 10000, 200, 0, 0 >>
       /\ pred.last.pre[1].P = P0 =>
         /\ pred.last.op = "gen"
         /\ pred.messages # <<>>
         /\ Last(pred.messages)[5] = "ABC123"
         /\ Last(pred.messages)[12] = "32808"
         /\ Last(pred.messages)[13] = "389"
         /\ Last(pred.messages)[14] = "90"
         /\ Last(pred.messages)[15] = "52.00000"
         /\ Last(pred.messages)[16] = "4.00000"
         /\ Last(pred.messages)[17] = "0"

\* the line of the track of the first report has been generated in the
\* second in which the report came in
C19_Witness ==
    /\ pred.last.op = "gen"
    /\ pred.last.key = "ABC123"
    /\ pred.last.pdt = <<>>
    /\ pred.last.pre[1].state = << 0, 0, 10000, 200, 0, 0 >>
    /\ pred.last.pre[1].P = P0
    /\ pred.last.pre[1].callsign = "KLM1"
    /\ udp.upserted = <<1>>
    /\ udp.json = 3
    /\ Last(pred.messages)[13] = "389"

\* 1e-6 degree in units of 1e-7 degree
RoundTripTolerance == FineDeg \div (1000 * 1000)

\* C20: projecting a point and projecting the result back with the same
\* reference returns the latitude and the longitude of the point, each
\* within 1e-6 degree.
C20_ProjectorRoundTrip ==
    pred.last.op = "latlon" =>
        /\ Abs(pred.last.pdt[1] - pred.last.pre[1].lat) <= RoundTripTolerance
        /\ Abs(pred.last.pdt[2] - pred.last.pre[1].lon) <= RoundTripTolerance

\* a point half a degree east and a hundredth of a degree south of the
\* reference at 52 N has gone through both functions
C20_Witness ==
    /\ pred.last.op = "latlon"
    /\ pred.last.pre[1].ref_lat = 520000000
    /\ pred.last.pre[1].lat = 520000000 - 123457
    /\ pred.last.pre[1].lon = 40000000 + 5000000
    /\ Abs(pred.last.pdt[1] - pred.last.pre[1].lat) <= RoundTripTolerance
    /\ Abs(pred.last.pdt[2] - pred.last.pre[1].lon) <= RoundTripTolerance

\* C21: no upsert and no generation of a tick leaves a track with a
\* last-update time earlier than the one the track had before the step.
C21_LastTimeNeverDecreases ==
    /\ udp.pc = "loop" /\ udp.last.op = "update" =>
         Get(filters, udp.last.key).last_time >= udp.last.pre[1].last_time
    /\ pred.pc = "gen" /\ pred.last.op \in {"gen", "gen_raise"} =>
         Get(filters, pred.last.key).last_time >= pred.last.pre[1].last_time

\* C22: no thread holds the registry lock and the subscriber-set lock
\* together (each lock is held exactly inside the one block of its holder);
\* every lock that is held is released, after an exception too; and every
\* thread that waits for a lock gets it.
C22_DeadlockFreedom ==
    /\ [](/\ ~(filters_lock = "pred" /\ clients_lock = "pred")
          /\ filters_lock \in {"none", "udp", "pred"}
          /\ clients_lock \in {"none", "pred"}
          /\ filters_lock = "udp" <=> udp.pc = "loop"
          /\ filters_lock = "pred" <=> pred.pc = "gen"
          /\ clients_lock = "pred" <=> pred.pc = "send"
          /\ udp.last.op \in {"raise", "update_raise"} => udp.pc # "loop")
    /\ (filters_lock = "udp") ~> (filters_lock # "udp")
    /\ (filters_lock = "pred") ~> (filters_lock # "pred")
    /\ (clients_lock = "pred") ~> (clients_lock = "none")
    /\ (udp.pc = "acquire") ~> (udp.pc = "loop")
    /\ (pred.pc = "acquire") ~> (pred.pc = "gen")
    /\ (pred.pc = "bcast") ~> (pred.pc = "send")
    /\ (tcp.pc = "add") ~> (tcp.pc = "accept")

\* the scheduler waits for the registry lock, which the listener holds in
\* the middle of a datagram, while the accept loop has a subscriber to add
C22_Witness ==
    /\ udp.pc = "loop"
    /\ udp.i > 1
    /\ udp.i <= Len(Entries(udp.json))
    /\ filters_lock = "udp"
    /\ pred.pc = "acquire"
    /\ tcp.pc = "add"
    /\ clients_lock = "none"

IsSuffix(a, b) ==
    /\ Len(a) <= Len(b)
    /\ a = SubSeq(b, Len(b) - Len(a) + 1, Len(b))

\* C23: the batches written to a subscriber are written once each and in
\* the order of the ticks; a fan-out that ends has written its batch to
\* every subscriber that was in the set when it started and is still in it;
\* outside a fan-out a subscriber of the set has every batch that a
\* subscriber added before it was written since (its batches are the last
\* ones of the earlier subscriber's); a subscriber leaves the set only
\* closed, and a closed one is not written again and is not added again.
C23_DeliveryOrder ==
    /\ [](/\ \A c \in Sockets :
               /\ \A q \in 1..(Len(delivered[c]) - 1) :
                    delivered[c][q] < delivered[c][q + 1]
               /\ Cardinality({ q \in DOMAIN clients : clients[q] = c }) <= 1
               /\ c \in Range(clients) => sock[c] \notin {"free", "closed"}
          /\ pred.pc # "send" =>
               \A q1, q2 \in DOMAIN clients :
                  q1 < q2 => IsSuffix(delivered[clients[q2]], delivered[clients[q1]]))
    /\ [][/\ \A c \in Sockets :
               /\ sock[c] = "closed" =>
                    /\ sock'[c] = "closed"
                    /\ delivered'[c] = delivered[c]
                    /\ c \notin Range(clients')
               /\ c \in Range(clients) /\ c \notin Range(clients') =>
                    sock[c] = "reset" /\ sock'[c] = "closed"
          /\ pred.pc = "send" /\ pred'.pc # "send" =>
               \A c \in Range(pred.cl) \cap Range(clients') :
                  /\ delivered'[c] # <<>>
                  /\ Last(delivered'[c]) = pred.n
                  /\ WritesOf(c, pred.n) = 1]_vars

\* after the fan-out of the second tick the first subscriber has the
\* batches of both ticks and the second one, added in between, the later one
C23_Witness ==
    /\ pred.last.op = "bcast_release"
    /\ clients = << 1, 2 >>
    /\ delivered[1] = << 0, 1 >>
    /\ delivered[2] = << 1 >>

=============================================================================
